---- MODULE Spec2Model ----
(***************************************************************************)
(* functionplus: the Function wrapper (src/functionplus/function.py) and   *)
(* the operator descriptors that lift the host operators onto it           *)
(* (src/functionplus/core/dunder.py).                                      *)
(*                                                                         *)
(* Objects are modelled as values.  A number is a record [t, n, d]: the    *)
(* Python type t ("int", "bool", "float") and the exact value n/d in       *)
(* lowest terms.  A raised exception is the record whose t is the          *)
(* exception's type.  A callable is a record with a field k (its kind) and *)
(* the variables its closure captured; a Function instance is a record     *)
(* with the fields function, name and components.                          *)
(***************************************************************************)
EXTENDS Integers, Sequences, FiniteSets, TLC

VARIABLES heap, last

vars == <<heap, last>>

(***************************************************************************)
(* Bounds of the model.                                                    *)
(***************************************************************************)
\* Function instances the program keeps a reference to at the same time.
MaxObjs == 1
\* Largest repetition count handed to composed().
MaxN == 2
\* Largest numerator or denominator the model computes with; a call whose
\* evaluation leaves this range is not taken.
MaxMag == 30000

(***************************************************************************)
(* Host values: numbers, None, exceptions.                                 *)
(***************************************************************************)
Num(t, n, d) == [t |-> t, n |-> n, d |-> d]

PyInt(n) == Num("int", n, 1)

PyBool(b) == Num("bool", IF b THEN 1 ELSE 0, 1)

None == Num("NoneType", 0, 1)

Raise(e) == Num(e, 0, 1)

\* The value of an evaluation the model cannot represent (out of MaxMag, or
\* not a rational number).
NoRep == Num("unrepresentable", 0, 1)

NumTypes == {"int", "bool", "float"}

ExcTypes == {"TypeError", "ValueError", "ZeroDivisionError", "AttributeError"}

IsNumber(v) == "t" \in DOMAIN v /\ v.t \in NumTypes

IsExc(v) == "t" \in DOMAIN v /\ v.t \in ExcTypes

Abs(i) == IF i < 0 THEN -i ELSE i

Sign(i) == IF i < 0 THEN -1 ELSE IF i = 0 THEN 0 ELSE 1

RECURSIVE Gcd(_, _)
Gcd(a, b) == IF b = 0 THEN a ELSE Gcd(b, a % b)

\* The number n/d of type t, in lowest terms with a positive denominator.
Mk(t, n, d) ==
  LET g == Gcd(Abs(n), Abs(d))
      nn == Sign(d) * (n \div g)
      dd == Abs(d) \div g
  IN IF Abs(nn) > MaxMag \/ dd > MaxMag THEN NoRep ELSE Num(t, nn, dd)

\* The type of an arithmetic result: float if an operand is a float, else int.
ArithType(a, b) == IF a.t = "float" \/ b.t = "float" THEN "float" ELSE "int"

PyAdd(a, b) == Mk(ArithType(a, b), a.n * b.d + b.n * a.d, a.d * b.d)

PySub(a, b) == Mk(ArithType(a, b), a.n * b.d - b.n * a.d, a.d * b.d)

PyMul(a, b) == Mk(ArithType(a, b), a.n * b.n, a.d * b.d)

PyTrueDiv(a, b) ==
  IF b.n = 0 THEN Raise("ZeroDivisionError")
  ELSE Mk("float", a.n * b.d, a.d * b.n)

\* floor(a / b) as an integer, for b # 0.
FloorQuot(a, b) == (Sign(b.n) * a.n * b.d) \div (a.d * Abs(b.n))

PyFloorDiv(a, b) ==
  IF b.n = 0 THEN Raise("ZeroDivisionError")
  ELSE Mk(ArithType(a, b), FloorQuot(a, b), 1)

PyMod(a, b) ==
  IF b.n = 0 THEN Raise("ZeroDivisionError")
  ELSE LET q == Mk(ArithType(a, b), FloorQuot(a, b), 1)
       IN IF q = NoRep THEN NoRep
          ELSE LET p == PyMul(b, q)
               IN IF p = NoRep THEN NoRep ELSE PySub(a, p)

\* acc times a^k (k >= 0), as a value of type t.
RECURSIVE PowNat(_, _, _, _)
PowNat(t, a, k, acc) ==
  IF k = 0 THEN acc
  ELSE LET r == Mk(t, acc.n * a.n, acc.d * a.d)
       IN IF r = NoRep THEN NoRep ELSE PowNat(t, a, k - 1, r)

\* a^k for an integer k >= 0: 0 and +-1 by cases, the rest by multiplication
\* (which leaves MaxMag after a few steps).
PowInt(t, a, k) ==
  IF k = 0 THEN Num(t, 1, 1)
  ELSE IF a.n = 0 THEN Num(t, 0, 1)
  ELSE IF Abs(a.n) = a.d THEN Num(t, IF a.n < 0 /\ k % 2 = 1 THEN -1 ELSE 1, 1)
  ELSE PowNat(t, a, k, Num(t, 1, 1))

PyPow(a, b) ==
  IF b.d # 1 THEN NoRep
  ELSE IF b.n >= 0 THEN PowInt(ArithType(a, b), a, b.n)
  ELSE IF a.n = 0 THEN Raise("ZeroDivisionError")
  ELSE PowInt("float", Mk("float", a.d, a.n), -b.n)

\* -1, 0 or 1 as a is below, equal to or above b.
Cmp(a, b) == Sign(a.n * b.d - b.n * a.d)

\* One bit operation on two's complement integers of unbounded width.
BitAnd(x, y) == IF x = 1 /\ y = 1 THEN 1 ELSE 0

BitOr(x, y) == IF x = 1 \/ y = 1 THEN 1 ELSE 0

BitXor(x, y) == IF x # y THEN 1 ELSE 0

Bit(op, x, y) ==
  CASE op = "and_" -> BitAnd(x, y)
    [] op = "or_" -> BitOr(x, y)
    [] op = "xor" -> BitXor(x, y)

RECURSIVE Bitwise(_, _, _)
Bitwise(op, i, j) ==
  IF i \in {0, -1} /\ j \in {0, -1}
  THEN -Bit(op, -i, -j)
  ELSE 2 * Bitwise(op, i \div 2, j \div 2) + Bit(op, i % 2, j % 2)

PyBitwise(op, a, b) ==
  IF a.t = "float" \/ b.t = "float" THEN Raise("TypeError")
  ELSE Mk(IF a.t = "bool" /\ b.t = "bool" THEN "bool" ELSE "int",
          Bitwise(op, a.n, b.n), 1)

(***************************************************************************)
(* The operators the wrapper lifts: the symbol tables of core/ops.py.      *)
(***************************************************************************)
unary_symbols == [abs |-> "abs", neg |-> "-", pos |-> "+"]

binary_symbols ==
  [and_ |-> "&", add |-> "+", eq |-> "==", floordiv |-> "//", ge |-> ">=",
   gt |-> ">", le |-> "<=", lt |-> "<", mod |-> "%", mul |-> "*", ne |-> "!=",
   or_ |-> "|", pow |-> "**", sub |-> "-", truediv |-> "/", xor |-> "^"]

UnaryOps == DOMAIN unary_symbols

BinaryOps == DOMAIN binary_symbols

\* operator.<op>(a, b) on two numbers.
PyBinary(op, a, b) ==
  IF a = NoRep \/ b = NoRep THEN NoRep
  ELSE IF ~(IsNumber(a) /\ IsNumber(b)) THEN Raise("TypeError")
  ELSE CASE op = "add" -> PyAdd(a, b)
         [] op = "sub" -> PySub(a, b)
         [] op = "mul" -> PyMul(a, b)
         [] op = "truediv" -> PyTrueDiv(a, b)
         [] op = "floordiv" -> PyFloorDiv(a, b)
         [] op = "mod" -> PyMod(a, b)
         [] op = "pow" -> PyPow(a, b)
         [] op = "eq" -> PyBool(Cmp(a, b) = 0)
         [] op = "ne" -> PyBool(Cmp(a, b) # 0)
         [] op = "lt" -> PyBool(Cmp(a, b) < 0)
         [] op = "le" -> PyBool(Cmp(a, b) <= 0)
         [] op = "gt" -> PyBool(Cmp(a, b) > 0)
         [] op = "ge" -> PyBool(Cmp(a, b) >= 0)
         [] op \in {"and_", "or_", "xor"} -> PyBitwise(op, a, b)

\* operator.<op>(a) on a number.
PyUnary(op, a) ==
  IF a = NoRep THEN NoRep
  ELSE IF ~IsNumber(a) THEN Raise("TypeError")
  ELSE LET t == IF a.t = "float" THEN "float" ELSE "int"
       IN CASE op = "neg" -> Mk(t, -a.n, a.d)
            [] op = "pos" -> Mk(t, a.n, a.d)
            [] op = "abs" -> Mk(t, Abs(a.n), a.d)

(***************************************************************************)
(* Objects.  Callables are compared by value: two closures that captured   *)
(* the same variables are the same callable.                               *)
(***************************************************************************)
\* A name argument left at its default None.
NoName == "<None>"

\* def inc(v): return v + 1 and def double(v): return 2 * v, two module-level
\* functions of the caller.
inc == [k |-> "def", name |-> "inc"]

double == [k |-> "def", name |-> "double"]

\* The lambda x: x that Function.id wraps.
lambda_x == [k |-> "lambda", name |-> "<lambda>"]

IsFunction(obj) == "function" \in DOMAIN obj

IsClosure(obj) == "k" \in DOMAIN obj

\* callable(obj): Function defines __call__; numbers are not callable.
callable(obj) == IsFunction(obj) \/ IsClosure(obj)

\* str(v) of an int or bool constant.
PyStr(v) ==
  IF v.t = "bool" THEN (IF v.n = 1 THEN "True" ELSE "False") ELSE ToString(v.n)

get_funcname(obj) ==
  IF "name" \in DOMAIN obj THEN obj.name
  ELSE LET function == IF IsFunction(obj) THEN obj.function ELSE obj
       IN IF "name" \in DOMAIN function THEN function.name ELSE PyStr(function)

get_components(instance) ==
  IF ~callable(instance) THEN {}
  ELSE IF "components" \in DOMAIN instance THEN instance.components
  ELSE {instance}

\* numpy.full_like(x, other, dtype=None) followed by .item(), on scalars: the
\* constant other converted to the type of x.
full_like_item(x, other) ==
  IF x = NoRep THEN NoRep
  ELSE IF ~IsNumber(x) THEN Raise("TypeError")
  ELSE CASE x.t = "bool" -> PyBool(other.n # 0)
         [] x.t = "float" -> Num("float", other.n, other.d)
         [] x.t = "int" -> Mk("int", Sign(other.n) * (Abs(other.n) \div other.d), 1)

(***************************************************************************)
(* Calling.  Invoke(c, x) is one call c(x) of a callable: the value it     *)
(* returns or the exception it raises (ret), and the operands it invoked,  *)
(* in order (log).  A call takes one positional argument.                  *)
(***************************************************************************)
RECURSIVE Invoke(_, _)

\* Function.__call__, and the call of any other object.
Apply(obj, x) ==
  IF ~callable(obj) THEN Raise("TypeError")
  ELSE Invoke(IF IsFunction(obj) THEN obj.function ELSE obj, x).ret

binary_calls(f, g, x) ==
  LET cf == callable(f)
      cg == callable(g)
      F == IF cf THEN Apply(f, x) ELSE f
      G == IF cg THEN Apply(g, x) ELSE g
  IN IF cf /\ cg
     THEN IF IsExc(F) THEN [exc |-> F, F |-> None, G |-> None, log |-> <<f>>]
          ELSE IF IsExc(G) THEN [exc |-> G, F |-> None, G |-> None, log |-> <<f, g>>]
          ELSE [exc |-> None, F |-> F, G |-> G, log |-> <<f, g>>]
     ELSE IF cf
     THEN IF IsExc(F) THEN [exc |-> F, F |-> None, G |-> None, log |-> <<f>>]
          ELSE [exc |-> None, F |-> F, G |-> g, log |-> <<f>>]
     ELSE IF cg
     THEN IF IsExc(G) THEN [exc |-> G, F |-> None, G |-> None, log |-> <<g>>]
          ELSE [exc |-> None, F |-> f, G |-> G, log |-> <<g>>]
     ELSE [exc |-> None, F |-> f, G |-> g, log |-> <<>>]

\* unary_wrapper with the operator left out: the wrapper returns fself(x).
unary_wrapper_no_op(c, x) ==
  [ret |-> Apply(c.fself, x), log |-> <<c.fself>>]

\* DunderUnaryOperator.op.wrapper
unary_wrapper(c, x) ==
  LET v == Apply(c.fself, x)
  IN [ret |-> IF IsExc(v) THEN v ELSE PyUnary(c.op, v), log |-> <<c.fself>>]

\* binary_wrapper with the two results handed to the operator in the other order.
binary_wrapper_swapped(c, x) ==
  LET calls == binary_calls(c.fself, c.fother, x)
  IN IF calls.exc # None THEN [ret |-> calls.exc, log |-> calls.log]
     ELSE [ret |-> PyBinary(c.op, calls.G, calls.F), log |-> calls.log]

\* DunderBinaryOperator.op.wrapper
binary_wrapper(c, x) ==
  LET swapped == binary_calls(c.fother, c.fself, x)
      calls == binary_calls(c.fself, c.fother, x)
      before == IF c.is_rop THEN swapped.log ELSE <<>>
  IN IF c.is_rop /\ swapped.exc # None
     THEN [ret |-> swapped.exc, log |-> swapped.log]
     ELSE IF calls.exc # None
     THEN [ret |-> calls.exc, log |-> before \o calls.log]
     ELSE [ret |-> PyBinary(c.op, calls.F, calls.G), log |-> before \o calls.log]

\* compose_wrapper applying f first and g last: g(f(*args, **kwargs)).
compose_wrapper_reversed(c, x) ==
  LET v == Apply(c.f, x)
  IN IF IsExc(v) THEN [ret |-> v, log |-> <<c.f>>]
     ELSE [ret |-> Apply(c.g, v), log |-> <<c.f, c.g>>]

\* The wrapper of Function.__matmul__ and of CompositionOperator.lop:
\* f(g(*args, **kwargs)).
compose_wrapper(c, x) ==
  LET v == Apply(c.g, x)
  IN IF IsExc(v) THEN [ret |-> v, log |-> <<c.g>>]
     ELSE [ret |-> Apply(c.f, v), log |-> <<c.g, c.f>>]

Invoke(c, x) ==
  CASE c.k = "def" ->
         [ret |-> IF x = NoRep THEN NoRep
                  ELSE IF ~IsNumber(x) THEN Raise("TypeError")
                  ELSE IF c = inc THEN PyAdd(x, PyInt(1))
                  ELSE PyMul(PyInt(2), x),
          log |-> <<>>]
    [] c.k = "lambda" -> [ret |-> x, log |-> <<>>]
    [] c.k = "other_func" -> [ret |-> full_like_item(x, c.other), log |-> <<>>]
    [] c.k = "unary" -> unary_wrapper(c, x)
    [] c.k = "binary" -> binary_wrapper(c, x)
    [] c.k = "compose" -> compose_wrapper(c, x)

(***************************************************************************)
(* Function (function.py) and the operator descriptors (core/dunder.py).   *)
(* Each operator returns the object it returns, or the exception it raises.*)
(***************************************************************************)
\* Function.__init__ without the callable() test.
Function_init_unchecked(function, name) ==
  LET target == IF IsFunction(function) THEN function.function ELSE function
  IN [function |-> target,
      name |-> IF name # NoName THEN name
               ELSE IF "name" \in DOMAIN target THEN target.name ELSE NoName,
      components |-> {target}]

\* Function.__init__(self, function, name)
Function_init(function, name) ==
  LET inherited == IF IsFunction(function) /\ name = NoName
                   THEN function.name ELSE NoName
      target == IF IsFunction(function) THEN function.function ELSE function
  IN IF ~callable(target) THEN Raise("TypeError")
     ELSE LET \* update_wrapper(self, function) assigns function.__name__
              copied == IF "name" \in DOMAIN target THEN target.name ELSE inherited
          IN [function |-> target,
              name |-> IF name # NoName THEN name ELSE copied,
              components |-> {target}]

\* Function.id(cls, name)
id(name) == Function_init(lambda_x, name)

\* DunderUnaryOperator.op.__op__(fself), with cls = Function
unary_op(op, fself) ==
  LET f_name == get_funcname(fself)
      new_name == "(" \o unary_symbols[op] \o " " \o f_name \o ")"
      wrapper == [k |-> "unary", op |-> op, fself |-> fself, name |-> new_name]
      h == Function_init(wrapper, NoName)
  IN [h EXCEPT !.components = get_components(fself)]

\* DunderBinaryOperator.op.__op__(fself, fother) of the descriptor for op
\* (is_rop: the descriptor of the reversed variant), with cls = Function
binary_op(op, is_rop, fself, fother) ==
  LET f_name == get_funcname(fself)
      g_name == get_funcname(fother)
      new_name == "(" \o f_name \o " " \o binary_symbols[op] \o " " \o g_name \o ")"
      wrapper == [k |-> "binary", op |-> op, is_rop |-> is_rop, fself |-> fself,
                  fother |-> fother, name |-> new_name]
      h == Function_init(wrapper, NoName)
  IN [h EXCEPT !.components = get_components(fself) \cup get_components(fother)]

\* The reversed variants the class body registers: hasattr(float, rop_name).
HasReversed == {"add", "sub", "mul", "truediv", "floordiv", "mod", "pow"}

\* Function.__matmul__(self, other)
Function_matmul(self, other) ==
  LET f == IF IsFunction(self) THEN self.function ELSE self
      f_name == get_funcname(self)
      g == IF IsFunction(other) THEN other.function ELSE other
      g_name == get_funcname(other)
      wrapper == [k |-> "compose", f |-> f, g |-> g, name |-> g_name \o "; " \o f_name]
  IN IF ~callable(g) THEN Apply(f, g)
     \* self.__class__(wrapper), and other.__class__(wrapper) on a TypeError
     ELSE IF IsFunction(self) \/ IsFunction(other) THEN Function_init(wrapper, NoName)
     ELSE Raise("TypeError")

\* Function.__rmatmul__(self, other)
Function_rmatmul(self, other) ==
  LET other_func ==
        IF ~callable(other)
        THEN Function_init([k |-> "other_func", other |-> other, name |-> "other_func"],
                           get_funcname(other))
        ELSE other
  IN Function_matmul(other_func, self)

RECURSIVE composed_loop(_, _, _)
composed_loop(g, self, k) ==
  IF k = 0 THEN g ELSE composed_loop(Function_matmul(g, self), self, k - 1)

\* composed with the loop run n times instead of n - 1.
composed_one_more(self, n) ==
  IF n < 0 THEN Raise("ValueError")
  ELSE IF n = 0 THEN id("id")
  ELSE composed_loop(self, self, n)

\* Function.composed(self, n)
composed(self, n) ==
  IF n < 0 THEN Raise("ValueError")
  ELSE IF n = 0 THEN id("id")
  ELSE composed_loop(self, self, n - 1)

\* CompositionOperator.lop.__matmul__(fself, fother), with cls = Function
lop(fself, fother) ==
  LET f == IF IsFunction(fself) THEN fself.function ELSE fself
      g == IF IsFunction(fother) THEN fother.function ELSE fother
      f_name == get_funcname(fself)
      g_name == get_funcname(fother)
      wrapper == [k |-> "compose", f |-> f, g |-> g, name |-> g_name \o "; " \o f_name]
      h == Function_init(wrapper, NoName)
  IN IF ~callable(g) THEN Apply(f, g)
     ELSE [h EXCEPT !.components = get_components(fself) \cup get_components(fother)]

\* The attributes of a Function instance: what __init__ sets and what the class
\* body defines (the lifted operators apart).
FunctionAttributes ==
  {"function", "name", "components", "__name__", "__wrapped__", "__call__",
   "__repr__", "__hash__", "__matmul__", "__rmatmul__", "composed", "partial", "id"}

\* CompositionOperator.rop.__rmatmul__(self, other), with cls = Function.  The
\* inner function's own parameter self (the Function instance) hides the
\* descriptor, so self.lop is an attribute lookup on the instance; the call
\* passes other, not other_func.
rop(self, other) ==
  LET other_func ==
        IF ~callable(other)
        THEN Function_init([k |-> "other_func", other |-> other, name |-> "other_func"],
                           get_funcname(other))
        ELSE other
  IN IF "lop" \in FunctionAttributes THEN lop(other, self)
     ELSE Raise("AttributeError")

(***************************************************************************)
(* The program: a caller that constructs wrappers, combines them and calls *)
(* them.  heap holds the Function instances the caller keeps; last is the  *)
(* operation it ran last, with what the operation returned or raised.      *)
(***************************************************************************)
\* The constants and the plain callables the caller combines wrappers with.
Consts == {PyInt(3)}

Raw == {inc, double}

\* The arguments the caller calls wrappers with.
Inputs == {PyInt(-3), PyInt(0), PyInt(5)}

Names == {NoName, "x"}

Operands == heap \cup Raw \cup Consts

Op(act, op, is_rop, self, other, name, n, ret, log) ==
  [act |-> act, op |-> op, is_rop |-> is_rop, self |-> self, other |-> other,
   name |-> name, n |-> n, ret |-> ret, log |-> log]

\* No operation has run, or the caller is done with the result of the last.
Idle == Op("idle", "", FALSE, None, None, NoName, 0, None, <<>>)

\* An operation that constructs or combines wrappers returns: the caller keeps
\* the returned wrapper (keep) or holds it only until its next step.
Returns(rec, keep) ==
  /\ last = Idle
  /\ rec.ret # NoRep
  /\ keep => /\ IsFunction(rec.ret)
             /\ rec.ret \notin heap
             /\ Cardinality(heap) < MaxObjs
  /\ last' = rec
  /\ heap' = IF keep THEN heap \cup {rec.ret} ELSE heap

Construct ==
  \E function \in Operands, name \in Names, keep \in BOOLEAN :
    Returns(Op("__init__", "", FALSE, None, function, name, 0,
               Function_init(function, name), <<>>), keep)

Identity ==
  \E name \in {"id", "x"}, keep \in BOOLEAN :
    Returns(Op("id", "", FALSE, None, None, name, 0, id(name), <<>>), keep)

Unary ==
  \E op \in UnaryOps, fself \in heap, keep \in BOOLEAN :
    Returns(Op("unary", op, FALSE, fself, None, NoName, 0,
               unary_op(op, fself), <<>>), keep)

Binary ==
  \E op \in BinaryOps, fself \in heap, fother \in Operands, keep \in BOOLEAN :
    Returns(Op("binary", op, FALSE, fself, fother, NoName, 0,
               binary_op(op, FALSE, fself, fother), <<>>), keep)

\* other <op> self, dispatched to self.__rop__(other): other is no Function.
ReversedBinary ==
  \E op \in HasReversed, fself \in heap, fother \in Raw \cup Consts, keep \in BOOLEAN :
    Returns(Op("binary", op, TRUE, fself, fother, NoName, 0,
               binary_op(op, TRUE, fself, fother), <<>>), keep)

\* self @ other with Function.__matmul__
MatMul ==
  \E self \in heap, other \in Operands, keep \in BOOLEAN :
    Returns(Op("__matmul__", "", FALSE, self, other, NoName, 0,
               Function_matmul(self, other), <<>>), keep)

\* other @ self with Function.__rmatmul__: other is no Function.
RMatMul ==
  \E self \in heap, other \in Raw \cup Consts, keep \in BOOLEAN :
    Returns(Op("__rmatmul__", "", TRUE, self, other, NoName, 0,
               Function_rmatmul(self, other), <<>>), keep)

\* self @ other with the descriptor CompositionOperator(is_rop=False)
DunderMatMul ==
  \E self \in heap, other \in Operands, keep \in BOOLEAN :
    Returns(Op("lop", "", FALSE, self, other, NoName, 0, lop(self, other), <<>>), keep)

\* other @ self with the descriptor CompositionOperator(is_rop=True)
DunderRMatMul ==
  \E self \in heap, other \in Raw \cup Consts, keep \in BOOLEAN :
    Returns(Op("rop", "", TRUE, self, other, NoName, 0, rop(self, other), <<>>), keep)

Composed ==
  \E self \in heap, n \in -1 .. MaxN, keep \in BOOLEAN :
    Returns(Op("composed", "", FALSE, self, None, NoName, n, composed(self, n), <<>>),
            keep)

\* The wrappers the caller can call: the ones it keeps, or the one the last
\* operation returned, as in op(f, g)(x).
Callees ==
  IF last = Idle THEN heap
  ELSE IF last.act # "__call__" /\ IsFunction(last.ret) THEN {last.ret}
  ELSE {}

\* Function.__call__(self, x)
Call ==
  \E self \in Callees, x \in Inputs :
    LET r == Invoke(self.function, x)
    IN /\ r.ret # NoRep
       /\ last' = Op("__call__", "", FALSE, self, x, NoName, 0, r.ret, r.log)
       /\ UNCHANGED heap

\* The caller is done with what the last operation returned.
Discard ==
  /\ last # Idle
  /\ last' = Idle
  /\ UNCHANGED heap

Init == heap = {} /\ last = Idle

Next ==
  \/ Construct
  \/ Identity
  \/ Unary
  \/ Binary
  \/ ReversedBinary
  \/ MatMul
  \/ RMatMul
  \/ DunderMatMul
  \/ DunderRMatMul
  \/ Composed
  \/ Call
  \/ Discard

Spec == Init /\ [][Next]_vars

(***************************************************************************)
(* What the specification says of the operators, restated on its own terms *)
(***************************************************************************)
\* The value of an operand at x: its result if it is callable, else itself.
OperandValue(g, x) == IF callable(g) THEN Apply(g, x) ELSE g

\* op(F, G) for the operands f and g at x, an exception of f or of g (in this
\* order) propagating.
Lifted(op, f, g, x) ==
  LET F == OperandValue(f, x)
      G == OperandValue(g, x)
  IN IF IsExc(F) THEN F ELSE IF IsExc(G) THEN G ELSE PyBinary(op, F, G)

\* f(g(x)), an exception of g propagating.
Composite(f, g, x) ==
  LET v == Apply(g, x) IN IF IsExc(v) THEN v ELSE Apply(f, v)

\* f applied n times to x.
RECURSIVE Nested(_, _, _)
Nested(f, n, x) ==
  IF n = 0 THEN x
  ELSE LET v == Nested(f, n - 1, x) IN IF IsExc(v) THEN v ELSE Apply(f, v)

\* The leaf callables an operand was built from.
RECURSIVE Leaves(_)
Leaves(obj) ==
  IF ~callable(obj) THEN {}
  ELSE LET c == IF IsFunction(obj) THEN obj.function ELSE obj
       IN CASE c.k \in {"def", "lambda"} -> {c}
            [] c.k = "other_func" -> {}
            [] c.k = "unary" -> Leaves(c.fself)
            [] c.k = "binary" -> Leaves(c.fself) \cup Leaves(c.fother)
            [] c.k = "compose" -> Leaves(c.f) \cup Leaves(c.g)

Called == last.act = "__call__"

(* C1: a wrapper h = op(f, g) lifted by a direct binary operator returns     *)
(* op(F, G) at every x, F = f(x), G = g(x) if g is callable and g itself if  *)
(* it is a constant: both when the operator returns h and when h is called.  *)
C1_BinaryLiftApplies ==
  /\ (last.act = "binary" /\ ~last.is_rop) =>
       /\ IsFunction(last.ret)
       /\ \A x \in Inputs :
            Apply(last.ret, x) = Lifted(last.op, last.self, last.other, x)
  /\ (Called /\ last.self.function.k = "binary" /\ ~last.self.function.is_rop) =>
       LET c == last.self.function
       IN last.ret = Lifted(c.op, c.fself, c.fother, last.other)

\* A call of f <op> g with two callables where the order of the operands shows.
C1_Witness ==
  /\ Called
  /\ last.self.function.k = "binary"
  /\ ~last.self.function.is_rop
  /\ IsFunction(last.self.function.fself)
  /\ callable(last.self.function.fother)
  /\ IsNumber(last.ret)
  /\ last.ret # Lifted(last.self.function.op, last.self.function.fother,
                       last.self.function.fself, last.other)

(* C2: f @ g with a wrapper f on the left is, for a callable g, a new        *)
(* wrapper h with h(x) = f(g(x)) at every x, and for a constant g the value  *)
(* f(g) itself, no wrapper.                                                  *)
C2_Composition ==
  /\ last.act \in {"__matmul__", "lop"} =>
       IF callable(last.other)
       THEN /\ IsFunction(last.ret)
            /\ \A x \in Inputs : Apply(last.ret, x) = Composite(last.self, last.other, x)
       ELSE /\ ~IsFunction(last.ret)
            /\ last.ret = Apply(last.self, last.other)
  /\ (Called /\ last.self.function.k = "compose") =>
       last.ret = Composite(last.self.function.f, last.self.function.g, last.other)

\* A call of f @ g where g(f(x)) would be another value.
C2_Witness ==
  /\ Called
  /\ last.self.function.k = "compose"
  /\ IsNumber(last.ret)
  /\ last.ret # Composite(last.self.function.g, last.self.function.f, last.other)

(* C3: the components of a wrapper built by an operator (unary, binary,      *)
(* reversed binary, composition) are exactly the leaf callables of its       *)
(* operands: no constant, no synthesized wrapper function.                   *)
C3_Provenance ==
  (/\ last.act \in {"unary", "binary", "__matmul__", "__rmatmul__", "lop", "rop"}
   /\ IsFunction(last.ret))
    => last.ret.components = Leaves(last.self) \cup Leaves(last.other)

(* C4: the wrapper of f.__rop__(g) is lift(op, g, f): it returns op(G, f(x)) *)
(* at every x and is named "(<g.name> <symbol> <f.name>)".                   *)
C4_ReversedSwaps ==
  (last.act = "binary" /\ last.is_rop) =>
    /\ IsFunction(last.ret)
    /\ \A x \in Inputs : Apply(last.ret, x) = Lifted(last.op, last.other, last.self, x)
    /\ last.ret.name = "(" \o get_funcname(last.other) \o " "
                       \o binary_symbols[last.op] \o " " \o get_funcname(last.self) \o ")"

(* C5: Function(w) for a wrapper w wraps w's underlying callable and takes   *)
(* w's name when no name is given, and the given name otherwise.             *)
C5_InheritsName ==
  (last.act = "__init__" /\ IsFunction(last.other)) =>
    /\ IsFunction(last.ret)
    /\ last.ret.function = last.other.function
    /\ last.ret.name = IF last.name = NoName THEN last.other.name ELSE last.name

(* C6: f.composed(0)(x) = x, f.composed(n)(x) is f applied n times for       *)
(* n >= 1, and f.composed(n) raises ValueError for n < 0.                    *)
C6_Composed ==
  last.act = "composed" =>
    IF last.n < 0 THEN last.ret = Raise("ValueError")
    ELSE /\ IsFunction(last.ret)
         /\ \A x \in Inputs : Apply(last.ret, x) = Nested(last.self, last.n, x)

\* composed(n) of a wrapper with n >= 2, where one application fewer or more
\* gives another value.
C6_Witness ==
  /\ last.act = "composed"
  /\ last.n >= 2
  /\ IsFunction(last.ret)
  /\ \E x \in Inputs :
       /\ IsNumber(Apply(last.ret, x))
       /\ Apply(last.ret, x) # Nested(last.self, last.n - 1, x)
       /\ Apply(last.ret, x) # Nested(last.self, last.n + 1, x)

(* C7: c @ f for a constant c is a wrapper that returns c at every x where   *)
(* f returns; it raises nothing, and c itself is never called.               *)
C7_ConstantComposes ==
  (last.act \in {"__rmatmul__", "rop"} /\ ~callable(last.other)) =>
    /\ IsFunction(last.ret)
    /\ \A x \in Inputs :
         IsNumber(Apply(last.self, x)) =>
           LET v == Apply(last.ret, x)
           IN v = NoRep \/ (IsNumber(v) /\ Cmp(v, last.other) = 0)

(* C8: op(f) for a unary operator is a new wrapper h with h(x) = op(f(x)) at *)
(* every x and h.components = f.components.                                  *)
C8_UnaryLift ==
  /\ last.act = "unary" =>
       /\ IsFunction(last.ret)
       /\ last.ret.components = last.self.components
       /\ \A x \in Inputs :
            Apply(last.ret, x) =
              LET v == Apply(last.self, x)
              IN IF IsExc(v) THEN v ELSE PyUnary(last.op, v)
  /\ (Called /\ last.self.function.k = "unary") =>
       LET v == Apply(last.self.function.fself, last.other)
       IN last.ret = IF IsExc(v) THEN v ELSE PyUnary(last.self.function.op, v)

\* A call of op(f) whose result is not f(x).
C8_Witness ==
  /\ Called
  /\ last.self.function.k = "unary"
  /\ IsNumber(last.ret)
  /\ last.ret # Apply(last.self.function.fself, last.other)

(* C9: constructing a wrapper whose final target is not callable raises      *)
(* TypeError at once and yields no wrapper; a constructed wrapper has its    *)
(* components set to {target}, and every wrapper has a callable target.      *)
C9_ConstructionError ==
  /\ last.act = "__init__" =>
       LET target == IF IsFunction(last.other) THEN last.other.function ELSE last.other
       IN IF callable(target)
          THEN /\ IsFunction(last.ret)
               /\ last.ret.function = target
               /\ last.ret.components = {target}
          ELSE last.ret = Raise("TypeError")
  /\ \A h \in heap \cup {last.ret, last.self, last.other} :
       IsFunction(h) => callable(h.function)

\* The constructor was handed a constant and raised.
C9_Witness ==
  /\ last.act = "__init__"
  /\ ~callable(last.other)
  /\ last.ret = Raise("TypeError")
  /\ heap # {}

(* C10: a call of a wrapper lifted by a binary operator from two callable    *)
(* operands invokes the left operand of the lifted expression, then the      *)
(* right one: <<f, g>> for f.__op__(g) and <<g, f>> for f.__rop__(g).        *)
C10_LeftThenRight ==
  (/\ Called
   /\ last.self.function.k = "binary"
   /\ callable(last.self.function.fother)
   /\ ~IsExc(last.ret))
    => LET c == last.self.function
       IN last.log = IF c.is_rop THEN <<c.fother, c.fself>> ELSE <<c.fself, c.fother>>

\* The operand slots of a composite's closure that hold a callable, in the
\* order the closure names them.
CallableOperands(c) ==
  CASE c.k = "unary" -> <<c.fself>>
    [] c.k = "binary" -> SelectSeq(<<c.fself, c.fother>>, callable)
    [] c.k = "compose" -> <<c.g, c.f>>
    [] OTHER -> <<>>

\* How many invocations of the callable g a call recorded.
Invocations(log, g) == Cardinality({i \in DOMAIN log : log[i] = g})

(* C11: one call of a wrapper built by a unary, a binary (direct or          *)
(* reversed) or a composition operator that returns a value invokes each of  *)
(* its callable operands exactly once: none is invoked twice, none skipped.  *)
C11_EachOperandOnce ==
  (/\ Called
   /\ last.self.function.k \in {"unary", "binary", "compose"}
   /\ ~IsExc(last.ret))
    => LET ops == CallableOperands(last.self.function)
       IN /\ Len(last.log) = Len(ops)
          /\ \A i \in DOMAIN ops :
                Invocations(last.log, ops[i]) = Invocations(ops, ops[i])
====
